---- MODULE Spec2Model ----
(***************************************************************************)
(* RENTFREE backend (src/server.js): the room directory GET /api/rooms     *)
(* with its single-slot cache, and the signed display-name registry        *)
(* POST /api/display-name.                                                 *)
(*                                                                         *)
(* Data conventions of the model                                           *)
(*   - a string is a sequence of UTF-16 code units (naturals);             *)
(*   - a BigInt / an integral Number is a little-endian sequence of        *)
(*     decimal digits without leading zeros (zero is << >>), because the   *)
(*     token amounts are u64 values and their sums exceed 2^53;            *)
(*   - a public key is a key index; its base58 text is WalletOf(index).    *)
(***************************************************************************)
EXTENDS Integers, Sequences, FiniteSets, TLC

\* ---- CONFIG (src/server.js 12-14) ----
MAX_ROOMS == 80
LANDLORD_TOP_N == 10
CACHE_TTL_MS == 30000

\* ---- bounds of the model ----
\* number of public keys (wallets and mints) that exist
NumKeys == 83
\* longest account list of the exhaustive ledger family
MaxRecords == 3
\* number of directory requests that may be in flight at once
MaxInFlight == 2
\* the clock stops advancing at this many milliseconds after start
MaxClock == 60000

\* ------------------------------------------------------------------------
\* Arbitrary-precision naturals (BigInt, and the integral Numbers): the
\* little-endian sequence of base-1000000 limbs, without leading zero limbs
\* ------------------------------------------------------------------------
\* a sequence given as a function on 1..n, as a tuple
AsTuple(n, f) == SubSeq(f, 1, n)

Reverse(s) == AsTuple(Len(s), [i \in 1..Len(s) |-> s[Len(s) + 1 - i]])

RECURSIVE Strip(_)
\* drop the most significant zero limbs
Strip(a) ==
  IF a = << >> THEN << >>
  ELSE IF a[Len(a)] = 0 THEN Strip(SubSeq(a, 1, Len(a) - 1)) ELSE a

RECURSIVE BigAddC(_, _, _)
BigAddC(a, b, c) ==
  IF a = << >> /\ b = << >> THEN (IF c = 0 THEN << >> ELSE <<c>>)
  ELSE LET x == (IF a = << >> THEN 0 ELSE Head(a))
              + (IF b = << >> THEN 0 ELSE Head(b)) + c
       IN  <<x % 1000000>> \o BigAddC(IF a = << >> THEN << >> ELSE Tail(a),
                                      IF b = << >> THEN << >> ELSE Tail(b),
                                      x \div 1000000)

\* a + b
BigAdd(a, b) == BigAddC(a, b, 0)

RECURSIVE BigMulSmall(_, _, _)
\* a * m + c for a multiplier m and a carry c below 1000
BigMulSmall(a, m, c) ==
  IF a = << >> THEN (IF c = 0 THEN << >> ELSE <<c>>)
  ELSE LET x == Head(a) * m + c
       IN  Strip(<<x % 1000000>> \o BigMulSmall(Tail(a), m, x \div 1000000))

RECURSIVE CmpFromTop(_, _, _)
CmpFromTop(a, b, i) ==
  IF i = 0 THEN 0
  ELSE IF a[i] < b[i] THEN -1
  ELSE IF a[i] > b[i] THEN 1
  ELSE CmpFromTop(a, b, i - 1)

\* -1, 0, 1 as a < b, a = b, a > b
BigCmp(a, b) ==
  IF Len(a) < Len(b) THEN -1
  ELSE IF Len(a) > Len(b) THEN 1
  ELSE CmpFromTop(a, b, Len(a))

RECURSIVE HalfBE(_, _)
HalfBE(be, rem) ==
  IF be = << >> THEN << >>
  ELSE LET x == rem * 1000000 + Head(be)
       IN  <<x \div 2>> \o HalfBE(Tail(be), x % 2)

\* floor(a / 2)
BigHalf(a) == Strip(Reverse(HalfBE(Reverse(a), 0)))

BigOdd(a) == a # << >> /\ Head(a) % 2 = 1

RECURSIVE BigShl(_, _)
\* a * 2^s
BigShl(a, s) ==
  IF s = 0 THEN a ELSE LET b == BigShl(a, s - 1) IN BigAdd(b, b)

\* 2^53 = 9007199254740992: the integers below it are exact as doubles
P53 == <<740992, 199254, 9007>>

RECURSIVE RoundShift(_, _, _, _)
\* q are the leading bits of the value, s the number of bits shifted out,
\* roundBit the last bit shifted out and sticky whether any earlier one was 1:
\* shift until 53 bits are left, round to nearest, ties to even, shift back
RoundShift(q, s, roundBit, sticky) ==
  IF BigCmp(q, P53) < 0
  THEN LET up == roundBit = 1 /\ (sticky \/ BigOdd(q))
       IN  BigShl(IF up THEN BigAdd(q, <<1>>) ELSE q, s)
  ELSE RoundShift(BigHalf(q), s + 1, IF BigOdd(q) THEN 1 ELSE 0,
                  sticky \/ roundBit = 1)

\* Number(balance) of a BigInt (src/server.js 115): the nearest IEEE-754
\* double, itself an integer, kept as a BigInt
ToNumber(n) == RoundShift(n, 0, 0, FALSE)

Zeros(j) == AsTuple(j, [i \in 1..j |-> 0])

\* 10^k for k in 0..5
Ten(k) == <<1, 10, 100, 1000, 10000, 100000>>[k + 1]

\* the number of decimal digits of a limb
LimbDigits(x) ==
  IF x < 10 THEN 1 ELSE IF x < 100 THEN 2 ELSE IF x < 1000 THEN 3
  ELSE IF x < 10000 THEN 4 ELSE IF x < 100000 THEN 5 ELSE 6

\* the number of decimal digits of v > 0
DecLen(v) == 6 * (Len(v) - 1) + LimbDigits(v[Len(v)])

\* the decimal digit of weight 10^p of v
DigitAt(v, p) == (v[(p \div 6) + 1] \div Ten(p % 6)) % 10

\* 10^j
Pow10(j) == Zeros(j \div 6) \o <<Ten(j % 6)>>

\* d with its j least significant decimal digits cleared
FloorTo(d, j) ==
  Strip(AsTuple(Len(d), [i \in 1..Len(d) |->
    IF i <= j \div 6 THEN 0
    ELSE IF i = (j \div 6) + 1 THEN d[i] - (d[i] % Ten(j % 6))
    ELSE d[i]]))

CeilTo(d, j) == BigAdd(FloorTo(d, j), Pow10(j))

\* the j least significant decimal digits of d, as a number
LowDigits(d, j) ==
  Strip(AsTuple((j \div 6) + 1, [i \in 1..((j \div 6) + 1) |->
    IF i <= j \div 6 THEN d[i] ELSE d[i] % Ten(j % 6)]))

\* whether a decimal with the j last digits of d rounded away (down, or up)
\* still converts back to the double d
RoundTrips(d, j) == ToNumber(FloorTo(d, j)) = d \/ ToNumber(CeilTo(d, j)) = d

\* Number::toString for an integral double d >= 2^53: the decimal with the
\* fewest significant digits that still converts back to d, the one nearest
\* to d when two of them do
Shortest(d) ==
  LET j == CHOOSE k \in 0..(DecLen(d) - 1) :
             /\ RoundTrips(d, k)
             /\ \A m \in (k + 1)..(DecLen(d) - 1) : ~RoundTrips(d, m)
      lo == FloorTo(d, j)
      hi == CeilTo(d, j)
      low == LowDigits(d, j)
      nearLo == BigCmp(BigAdd(low, low), Pow10(j)) <= 0
  IN  IF ToNumber(lo) = d /\ (nearLo \/ ToNumber(hi) # d) THEN lo ELSE hi

\* balance.toString() of an integral Number below 1e21 (src/server.js 130):
\* the decimal string, most significant digit first, as character codes
NumberToString(d) ==
  LET v == IF BigCmp(d, P53) < 0 THEN d ELSE Shortest(d)
  IN  IF v = << >> THEN <<48>>
      ELSE AsTuple(DecLen(v), [i \in 1..DecLen(v) |-> 48 + DigitAt(v, DecLen(v) - i)])

\* the natural number a decimal string denotes
ParseDecimal(str) ==
  LET n == Len(str)
      digit(p) == IF p < n THEN str[n - p] - 48 ELSE 0
      limbs == (n + 5) \div 6
  IN  Strip(AsTuple(limbs, [k \in 1..limbs |->
        digit(6 * k - 6) + 10 * digit(6 * k - 5) + 100 * digit(6 * k - 4)
        + 1000 * digit(6 * k - 3) + 10000 * digit(6 * k - 2)
        + 100000 * digit(6 * k - 1)]))

RECURSIVE FromBytesLE(_)
\* amount |= BigInt(amountBytes[i]) << (8n * BigInt(i)), i = 0..7
\* (src/server.js 102-105): the little-endian value of the bytes
FromBytesLE(bytes) ==
  IF bytes = << >> THEN << >>
  ELSE BigMulSmall(FromBytesLE(Tail(bytes)), 256, Head(bytes))

\* ------------------------------------------------------------------------
\* Public keys and their base58 text
\* ------------------------------------------------------------------------
\* the character codes of the base58 alphabet, in ascending order
Base58 ==
  <<49, 50, 51, 52, 53, 54, 55, 56, 57,
    65, 66, 67, 68, 69, 70, 71, 72, 74, 75, 76, 77, 78,
    80, 81, 82, 83, 84, 85, 86, 87, 88, 89, 90,
    97, 98, 99, 100, 101, 102, 103, 104, 105, 106, 107,
    109, 110, 111, 112, 113, 114, 115, 116, 117, 118, 119, 120, 121, 122>>

\* "Wa11et": the part every address of the model shares
WalletPrefix == <<87, 97, 49, 49, 101, 116>>

Keys == 1..NumKeys

\* PublicKey.toBase58(): the address of key k; ascending in k
WalletOf(k) ==
  WalletPrefix \o <<Base58[((k - 1) \div 58) + 1], Base58[((k - 1) % 58) + 1]>>

\* the value of a base58 digit
Base58Value(c) == (CHOOSE i \in 1..Len(Base58) : Base58[i] = c) - 1

\* the key a string of the model's address shape decodes to
DecodeKey(str) == 58 * Base58Value(str[7]) + Base58Value(str[8]) + 1

\* whether new PublicKey(str) succeeds; it throws otherwise
IsPublicKey(str) ==
  /\ Len(str) = 8
  /\ SubSeq(str, 1, 6) = WalletPrefix
  /\ \A i \in {7, 8} : \E j \in 1..Len(Base58) : Base58[j] = str[i]
  /\ DecodeKey(str) \in Keys

\* new PublicKey(str) for a string that decodes
PublicKey(str) == DecodeKey(str)

\* not base58 ("0"): new PublicKey throws on it
BadAddress == <<48>>

\* undefined (a field the request does not carry) and null, where a string
\* is expected: sequences that are no strings
Absent == <<-1>>
Null == <<-2>>

\* JavaScript truthiness of a string or undefined or null
Truthy(v) == v # Absent /\ v # Null /\ v # << >>

\* ------------------------------------------------------------------------
\* hashToRoom (src/server.js 55-62)
\* ------------------------------------------------------------------------
\* the 32-bit hash is kept as <<high 16 bits, low 16 bits>>
RECURSIVE HashFrom(_, _, _)
\* hash = (hash * 31 + wallet.charCodeAt(i)) >>> 0, from character i on
HashFrom(h, wallet, i) ==
  IF i > Len(wallet) THEN h
  ELSE LET lo == h[2] * 31 + wallet[i]
           hi == h[1] * 31 + (lo \div 65536)
       IN  HashFrom(<<hi % 65536, lo % 65536>>, wallet, i + 1)

\* a room function that leaves out the + 1 of line 61
hashToRoomFromZero(wallet, maxRooms) ==
  LET h == HashFrom(<<0, 0>>, wallet, 1)
  IN  (((h[1] % maxRooms) * (65536 % maxRooms)) + h[2]) % maxRooms

hashToRoom(wallet, maxRooms) ==
  LET h == HashFrom(<<0, 0>>, wallet, 1)
  IN  ((((h[1] % maxRooms) * (65536 % maxRooms)) + h[2]) % maxRooms) + 1

\* ------------------------------------------------------------------------
\* The pipeline of GET /api/rooms (src/server.js 98-133)
\* ------------------------------------------------------------------------
\* A raw account is [owner |-> key, amountBytes |-> 8 bytes]: bytes [32,64)
\* and [64,72) of the 165-byte account data; new PublicKey(bytes).toBase58()
\* of the owner bytes (line 108) is WalletOf(owner).

\* the decoded amount of account i (lines 101-105)
AmountOf(accounts, i) == FromBytesLE(accounts[i].amountBytes)

\* the accounts the loop does not skip (line 106: amount === 0n continues)
Counted(accounts) == {i \in 1..Len(accounts) : AmountOf(accounts, i) # << >>}

RECURSIVE SumOwner(_, _, _, _)
\* the sum of the counted amounts of owner among accounts lo..hi: what the
\* repeated holdersMap.set(owner, current + amount) of lines 109-110 adds up
SumOwner(accounts, owner, lo, hi) ==
  IF lo > hi THEN << >>
  ELSE IF lo = hi
  THEN (IF accounts[lo].owner = owner THEN AmountOf(accounts, lo) ELSE << >>)
  ELSE LET mid == (lo + hi) \div 2
       IN  BigAdd(SumOwner(accounts, owner, lo, mid),
                  SumOwner(accounts, owner, mid + 1, hi))

\* holdersMap after the loop of lines 98-111, as the sequence of its entries
\* in the Map's iteration order: a key is inserted by the first counted
\* account of its owner and keeps that position when set again
holdersMap(accounts) ==
  LET first == {i \in Counted(accounts) :
                  \A j \in Counted(accounts) :
                     accounts[j].owner = accounts[i].owner => i <= j}
      n == Cardinality(first)
      at == AsTuple(n, [p \in 1..n |->
               CHOOSE i \in first : Cardinality({j \in first : j < i}) = p - 1])
  IN  AsTuple(n, [p \in 1..n |->
        [wallet |-> WalletOf(accounts[at[p]].owner),
         balance |-> SumOwner(accounts, accounts[at[p]].owner, 1, Len(accounts))]])

\* Array.from(holdersMap.entries()).map(...) (lines 113-116)
Holders(accounts) ==
  LET map == holdersMap(accounts)
  IN  AsTuple(Len(map), [i \in 1..Len(map) |->
        [walletAddress |-> map[i].wallet, balance |-> ToNumber(map[i].balance)]])

\* the comparator (a, b) => b.balance - a.balance: its sign
CompareHolders(a, b) == BigCmp(b.balance, a.balance)

\* holders.sort(comparator) (line 118): Array.prototype.sort is stable, so
\* element i lands behind the elements that compare before it and behind
\* the earlier elements that compare equal to it
SortHolders(holders) ==
  LET n == Len(holders)
      before == AsTuple(n, [i \in 1..n |->
                  Cardinality({j \in 1..n :
                     \/ CompareHolders(holders[j], holders[i]) < 0
                     \/ CompareHolders(holders[j], holders[i]) = 0 /\ j < i})])
      at == AsTuple(n, [p \in 1..n |-> CHOOSE i \in 1..n : before[i] = p - 1])
  IN  AsTuple(n, [p \in 1..n |-> holders[at[p]]])

\* holders.slice(0, MAX_ROOMS) (line 119)
Slice(seq, n) == SubSeq(seq, 1, IF Len(seq) < n THEN Len(seq) ELSE n)

\* a role test that counts one entry more as Landlord
RoleOfInclusive(index) == IF index <= LANDLORD_TOP_N THEN "Landlord" ELSE "Tenant"

\* index < LANDLORD_TOP_N ? "Landlord" : "Tenant" (line 122), index from 0
RoleOf(index) == IF index < LANDLORD_TOP_N THEN "Landlord" ELSE "Tenant"

\* getNameStmt.get(wallet): the row's name, or null (lines 51-53, 124-125)
getNameStmt(table, wallet) ==
  IF \E row \in table : row.wallet = wallet
  THEN (CHOOSE row \in table : row.wallet = wallet).name
  ELSE Null

\* top.map(...) (lines 121-133)
WithRooms(top, table) ==
  AsTuple(Len(top), [p \in 1..Len(top) |->
    [walletAddress |-> top[p].walletAddress,
     roomNumber |-> hashToRoom(top[p].walletAddress, MAX_ROOMS),
     role |-> RoleOf(p - 1),
     balance |-> NumberToString(top[p].balance),
     displayName |-> getNameStmt(table, top[p].walletAddress)]])

\* lines 98-133: from the fetched accounts to the response entries
Pipeline(accounts, table) ==
  WithRooms(Slice(SortHolders(Holders(accounts)), MAX_ROOMS), table)

\* ------------------------------------------------------------------------
\* Requests and their inputs
\* ------------------------------------------------------------------------
\* process.env.TOKEN_MINT (line 11): the configured mint
TOKEN_MINT == WalletOf(1)

\* the mints a request may name
Mints == {WalletOf(1), WalletOf(2)}

\* req.query.mint: none, the configured mint, another mint, not an address
Queries == {Absent, WalletOf(2), BadAddress}

\* whether line 69 throws on the query
QueryThrows(q) == Truthy(q) /\ ~IsPublicKey(q)

\* mint.toBase58() of lines 69-70
MintBase58(q) == IF Truthy(q) THEN WalletOf(PublicKey(q)) ELSE TOKEN_MINT

\* the u64 amount n < 65536 as the 8 little-endian bytes of the account data
Bytes(n) == <<n % 256, n \div 256, 0, 0, 0, 0, 0, 0>>

\* 2^53 + 1 as account bytes
BytesBig == <<1, 0, 0, 0, 0, 0, 32, 0>>

\* 2^53 as account bytes
Bytes2p53 == <<0, 0, 0, 0, 0, 0, 32, 0>>

Account(owner, amountBytes) == [owner |-> owner, amountBytes |-> amountBytes]

\* "RENTFREE_NAME_UPDATE_V1:" (line 163)
MessagePrefix ==
  <<82, 69, 78, 84, 70, 82, 69, 69, 95, 78, 65, 77, 69, 95,
    85, 80, 68, 65, 84, 69, 95, 86, 49, 58>>

\* String.prototype.startsWith
StartsWith(str, prefix) ==
  Len(str) >= Len(prefix) /\ SubSeq(str, 1, Len(prefix)) = prefix

\* the UTF-8 bytes of one UTF-16 code unit below the surrogates
Utf8Unit(c) ==
  IF c < 128 THEN <<c>>
  ELSE IF c < 2048 THEN <<192 + (c \div 64), 128 + (c % 64)>>
  ELSE <<224 + (c \div 4096), 128 + ((c \div 64) % 64), 128 + (c % 64)>>

RECURSIVE Utf8From(_, _)
Utf8From(str, i) ==
  IF i > Len(str) THEN << >> ELSE Utf8Unit(str[i]) \o Utf8From(str, i + 1)

\* new TextEncoder().encode(message) (line 172)
TextEncode(str) == Utf8From(str, 1)

\* A signature is [size, key, msg, intact]: the number of bytes sent (-1:
\* the request carries no signature field), the key and the message bytes it
\* was made with and whether its bits are still those the signer produced.
Sign(key, msgBytes) ==
  [size |-> 64, key |-> key, msg |-> msgBytes, intact |-> TRUE]

\* a signature with one bit flipped
Flip(sig) == [sig EXCEPT !.intact = FALSE]

\* a signature cut to 63 bytes
Truncate(sig) == [sig EXCEPT !.size = 63]

\* no signature field
NoSignature == [size |-> -1, key |-> 0, msg |-> << >>, intact |-> FALSE]

\* JavaScript truthiness of the signature field: any array is truthy
SignatureGiven(sig) == sig.size >= 0

\* nacl.sign.detached.verify throws on a signature that is not 64 bytes
VerifyThrows(sig) == sig.size # 64

\* nacl.sign.detached.verify(msgBytes, sigBytes, pubkey.toBytes()) (175-179)
Verify(msgBytes, sig, key) == sig.intact /\ sig.key = key /\ sig.msg = msgBytes

\* ------------------------------------------------------------------------
\* State
\* ------------------------------------------------------------------------
VARIABLES
  clock,               \* Date.now(), in milliseconds
  roomsCache,          \* line 16: NullRooms, or Rooms(entries)
  roomsCacheMint,      \* line 17
  roomsCacheUpdatedAt, \* line 18
  display_names,       \* the rows of table display_names (lines 35-41)
  ledger,              \* the upstream: the token accounts of each mint
  req,                 \* the directory requests awaiting the upstream, oldest first
  post,                \* the name update received and not yet handled
  res,                 \* the response on its way to the client
  writer,              \* history: what the run that wrote the slot last returned,
                       \* and the newest capture time stored since the slot
                       \* last changed its mint
  last                 \* history: the step taken last

vars == <<clock, roomsCache, roomsCacheMint, roomsCacheUpdatedAt, display_names,
          ledger, req, post, res, writer, last>>

\* roomsCache = null, and roomsCache = an array
NullRooms == [null |-> TRUE, rooms |-> << >>]
Rooms(entries) == [null |-> FALSE, rooms |-> entries]

\* no run has written the slot
NoWriter ==
  [null |-> TRUE, rooms |-> << >>, mint |-> Null, capturedAt |-> 0, newest |-> 0]

\* req without its i-th request
Without(i) == SubSeq(req, 1, i - 1) \o SubSeq(req, i + 1, Len(req))

NoResponse == [status |-> 0]

\* a step of the environment, in the history
Env == [op |-> "env", fetches |-> 0, lookups |-> 0]

\* the state after the module is loaded (lines 16-18, 35-41); Date.now() is
\* far more than CACHE_TTL_MS past the 0 in roomsCacheUpdatedAt
InitServer ==
  /\ clock = CACHE_TTL_MS
  /\ roomsCache = NullRooms
  /\ roomsCacheMint = Null
  /\ roomsCacheUpdatedAt = 0
  /\ display_names = {}
  /\ req = << >>
  /\ post = << >>
  /\ res = NoResponse
  /\ writer = NoWriter
  /\ last = Env

\* the event loop runs one handler at a time, and in this model the response
\* of one is read by its client before the next step
Quiet == res = NoResponse

\* ------------------------------------------------------------------------
\* GET /api/rooms (lines 67-152)
\* ------------------------------------------------------------------------
\* a cache condition that leaves out the comparison of the mints
CacheHitAnyMint(mintBase58, now) ==
  /\ ~roomsCache.null
  /\ now - roomsCacheUpdatedAt < CACHE_TTL_MS

\* a cache condition that still serves a list of exactly the TTL's age
CacheHitInclusive(mintBase58, now) ==
  /\ ~roomsCache.null
  /\ roomsCacheMint = mintBase58
  /\ now - roomsCacheUpdatedAt <= CACHE_TTL_MS

\* the cache condition of lines 74-78 ([] is truthy, null is not)
CacheHit(mintBase58, now) ==
  /\ ~roomsCache.null
  /\ roomsCacheMint = mintBase58
  /\ now - roomsCacheUpdatedAt < CACHE_TTL_MS

\* "429" and "Too many requests" (line 144)
Text429 == <<52, 50, 57>>
TextTooMany ==
  <<84, 111, 111, 32, 109, 97, 110, 121, 32, 114, 101, 113, 117, 101, 115, 116, 115>>

\* String.prototype.includes
Includes(str, part) ==
  \E i \in 1..(Len(str) - Len(part) + 1) : SubSeq(str, i, i + Len(part) - 1) = part

\* the response of the catch block (lines 140-151) to an error message
ErrorResponse(errStr) ==
  IF Includes(errStr, Text429) \/ Includes(errStr, TextTooMany)
  THEN [status |-> 503, error |-> "Upstream RPC rate-limited. Try again in a minute."]
  ELSE [status |-> 500, error |-> "Failed to load rooms"]

\* the message of the error new PublicKey throws: "Invalid public key input"
TextInvalidKey ==
  <<73, 110, 118, 97, 108, 105, 100, 32, 112, 117, 98, 108, 105, 99, 32,
    107, 101, 121, 32, 105, 110, 112, 117, 116>>

\* the messages of a fetch the upstream turned away for rate limiting:
\* "429 Too Many Requests", "Too many requests"
RateLimitErrors ==
  {<<52, 50, 57, 32, 84, 111, 111, 32, 77, 97, 110, 121, 32, 82, 101, 113,
     117, 101, 115, 116, 115>>,
   TextTooMany}

\* the messages of a fetch that failed for another reason: "fetch failed",
\* "Node is behind by 429 slots"
OtherErrors ==
  {<<102, 101, 116, 99, 104, 32, 102, 97, 105, 108, 101, 100>>,
   <<78, 111, 100, 101, 32, 105, 115, 32, 98, 101, 104, 105, 110, 100, 32,
     98, 121, 32, 52, 50, 57, 32, 115, 108, 111, 116, 115>>}

\* the messages the upstream fails with
UpstreamErrors == RateLimitErrors \cup OtherErrors

\* the message of a failed read of the registry: "database is locked"
TextStoreError ==
  <<100, 97, 116, 97, 98, 97, 115, 101, 32, 105, 115, 32, 108, 111, 99, 107,
    101, 100>>

\* the handler up to the await of line 86, on a request with query ?mint=q
RoomsStart(q) ==
  /\ Quiet
  /\ Len(req) < MaxInFlight
  /\ UNCHANGED <<clock, roomsCache, roomsCacheMint, roomsCacheUpdatedAt,
                 display_names, ledger, post, writer>>
  /\ IF QueryThrows(q)
     THEN /\ res' = ErrorResponse(TextInvalidKey)
          /\ req' = req
          /\ last' = [op |-> "throw", fetches |-> 0, lookups |-> 0]
     ELSE IF CacheHit(MintBase58(q), clock)
     THEN /\ res' = [status |-> 200, rooms |-> roomsCache.rooms, cached |-> TRUE]
          /\ req' = req
          /\ last' = [op |-> "hit", fetches |-> 0, lookups |-> 0]
     ELSE /\ res' = res
          /\ req' = Append(req, [mint |-> MintBase58(q), now |-> clock])
          /\ last' = [op |-> "miss", fetches |-> 1, lookups |-> 0]

\* a store that leaves out the assignment of line 137
StoreRoomsKeepingTime(r, withRooms) ==
  /\ roomsCache' = Rooms(withRooms)
  /\ roomsCacheMint' = req[r].mint
  /\ roomsCacheUpdatedAt' = roomsCacheUpdatedAt

\* a store that leaves out the assignment of line 136
StoreRoomsKeepingMint(r, withRooms) ==
  /\ roomsCache' = Rooms(withRooms)
  /\ roomsCacheMint' = roomsCacheMint
  /\ roomsCacheUpdatedAt' = req[r].now

\* what lines 135-137 store for the r-th request awaiting
StoreRooms(r, withRooms) ==
  /\ roomsCache' = Rooms(withRooms)
  /\ roomsCacheMint' = req[r].mint
  /\ roomsCacheUpdatedAt' = req[r].now

\* the handler from the return of getProgramAccounts on (lines 86-139), the
\* upstream answering with the accounts of the mint; storeFails: the
\* getNameStmt.get of line 124 throws
RoomsResume(r, storeFails) ==
  /\ Quiet
  /\ r \in 1..Len(req)
  /\ req' = Without(r)
  /\ UNCHANGED <<clock, display_names, ledger, post>>
  /\ LET accounts == ledger[req[r].mint]
         top == Slice(SortHolders(Holders(accounts)), MAX_ROOMS)
         withRooms == WithRooms(top, display_names)
     IN  IF storeFails /\ top # << >>
         THEN /\ res' = ErrorResponse(TextStoreError)
              /\ UNCHANGED <<roomsCache, roomsCacheMint, roomsCacheUpdatedAt, writer>>
              /\ last' = [op |-> "failed", fetches |-> 0, lookups |-> 1]
         ELSE /\ StoreRooms(r, withRooms)
              /\ res' = [status |-> 200, rooms |-> withRooms, cached |-> FALSE]
              /\ writer' = [null |-> FALSE, rooms |-> withRooms,
                            mint |-> req[r].mint, capturedAt |-> req[r].now,
                            newest |-> IF /\ writer.mint = req[r].mint
                                          /\ writer.newest > req[r].now
                                       THEN writer.newest ELSE req[r].now]
              /\ last' = [op |-> "stored", fetches |-> 0, lookups |-> Len(top)]

\* a handler that empties the slot when getProgramAccounts rejects
RoomsFailClearing(r, errStr) ==
  /\ Quiet
  /\ r \in 1..Len(req)
  /\ res' = ErrorResponse(errStr)
  /\ req' = Without(r)
  /\ last' = [op |-> "rejected", fetches |-> 0, lookups |-> 0, errStr |-> errStr]
  /\ roomsCache' = NullRooms
  /\ roomsCacheMint' = Null
  /\ roomsCacheUpdatedAt' = 0
  /\ writer' = NoWriter
  /\ UNCHANGED <<clock, display_names, ledger, post>>

\* getProgramAccounts rejects (line 86) with message errStr
RoomsFail(r, errStr) ==
  /\ Quiet
  /\ r \in 1..Len(req)
  /\ res' = ErrorResponse(errStr)
  /\ req' = Without(r)
  /\ last' = [op |-> "rejected", fetches |-> 0, lookups |-> 0, errStr |-> errStr]
  /\ UNCHANGED <<clock, roomsCache, roomsCacheMint, roomsCacheUpdatedAt,
                 display_names, ledger, post, writer>>

\* ------------------------------------------------------------------------
\* POST /api/display-name (lines 156-196)
\* ------------------------------------------------------------------------
\* A body is [walletAddress, displayName, message, signature].

\* line 159
MissingFields(body) ==
  \/ ~Truthy(body.walletAddress)
  \/ ~Truthy(body.displayName)
  \/ ~Truthy(body.message)
  \/ ~SignatureGiven(body.signature)

\* line 163
BadPrefix(body) == ~StartsWith(body.message, MessagePrefix)

\* a length check that turns away names of 24 characters
BadLengthFrom24(body) == Len(body.displayName) < 1 \/ Len(body.displayName) >= 24

\* line 167
BadLength(body) == Len(body.displayName) < 1 \/ Len(body.displayName) > 24

\* lines 171-179 throw: the wallet is no public key, or the signature is not
\* 64 bytes
VerificationThrows(body) ==
  ~IsPublicKey(body.walletAddress) \/ VerifyThrows(body.signature)

\* a verification that accepts a wallet's signature only while the registry
\* has no name for the wallet
IsValidOnce(body) ==
  /\ Verify(TextEncode(body.message), body.signature, PublicKey(body.walletAddress))
  /\ \A row \in display_names : row.wallet # body.walletAddress

\* isValid of lines 175-179
IsValid(body) ==
  Verify(TextEncode(body.message), body.signature, PublicKey(body.walletAddress))

\* a handler that looks at the prefix of the message after the signature
NameResponsePrefixLast(body) ==
  IF MissingFields(body) THEN [status |-> 400, error |-> "Missing fields"]
  ELSE IF BadLength(body) THEN [status |-> 400, error |-> "Invalid name length"]
  ELSE IF VerificationThrows(body)
  THEN [status |-> 500, error |-> "Failed to save display name"]
  ELSE IF ~IsValid(body)
  THEN [status |-> 401, error |-> "Signature verification failed"]
  ELSE IF BadPrefix(body) THEN [status |-> 400, error |-> "Invalid message prefix"]
  ELSE [status |-> 200, ok |-> TRUE, walletAddress |-> body.walletAddress,
        displayName |-> body.displayName]

\* the response of the handler to body, check by check (lines 158-195)
NameResponse(body) ==
  IF MissingFields(body) THEN [status |-> 400, error |-> "Missing fields"]
  ELSE IF BadPrefix(body) THEN [status |-> 400, error |-> "Invalid message prefix"]
  ELSE IF BadLength(body) THEN [status |-> 400, error |-> "Invalid name length"]
  ELSE IF VerificationThrows(body)
  THEN [status |-> 500, error |-> "Failed to save display name"]
  ELSE IF ~IsValid(body)
  THEN [status |-> 401, error |-> "Signature verification failed"]
  ELSE [status |-> 200, ok |-> TRUE, walletAddress |-> body.walletAddress,
        displayName |-> body.displayName]

\* a handler that writes the registry before it verifies the signature
ReachesUpsertUnverified(body) ==
  ~MissingFields(body) /\ ~BadPrefix(body) /\ ~BadLength(body)

\* whether the handler reaches upsertNameStmt.run (line 185) on body
ReachesUpsert(body) == NameResponse(body).status = 200

\* an insert that leaves the row alone on a conflict
upsertIgnoringConflict(table, wallet, name, updated_at) ==
  IF \E row \in table : row.wallet = wallet
  THEN table
  ELSE table \cup {[wallet |-> wallet, name |-> name, updated_at |-> updated_at]}

\* upsertNameStmt.run({wallet, name, updated_at}) (lines 43-49): insert, or
\* on a conflict on the primary key overwrite name and updated_at
upsertNameStmt(table, wallet, name, updated_at) ==
  {row \in table : row.wallet # wallet}
    \cup {[wallet |-> wallet, name |-> name, updated_at |-> updated_at]}

\* a request arrives; the handler is synchronous, so requests are handled
\* one after the other
PostArrive(body) ==
  /\ Quiet
  /\ post = << >>
  /\ post' = <<body>>
  /\ last' = Env
  /\ UNCHANGED <<clock, roomsCache, roomsCacheMint, roomsCacheUpdatedAt,
                 display_names, ledger, req, res, writer>>

\* a handler that also empties the cache slot when it has written a name
NameUpdateInvalidating ==
  /\ post # << >>
  /\ LET body == post[1]
     IN  /\ res' = NameResponse(body)
         /\ display_names' =
              IF ReachesUpsert(body)
              THEN upsertNameStmt(display_names, body.walletAddress,
                                  body.displayName, clock)
              ELSE display_names
         /\ last' = [op |-> "name", body |-> body,
                      prior |-> getNameStmt(display_names, body.walletAddress)]
         /\ IF ReachesUpsert(body)
            THEN /\ roomsCache' = NullRooms
                 /\ roomsCacheMint' = Null
                 /\ roomsCacheUpdatedAt' = 0
                 /\ writer' = NoWriter
            ELSE UNCHANGED <<roomsCache, roomsCacheMint, roomsCacheUpdatedAt, writer>>
  /\ post' = << >>
  /\ UNCHANGED <<clock, ledger, req>>

\* the handler (lines 156-196) on the request received
NameUpdate ==
  /\ post # << >>
  /\ LET body == post[1]
     IN  /\ res' = NameResponse(body)
         /\ display_names' =
              IF ReachesUpsert(body)
              THEN upsertNameStmt(display_names, body.walletAddress,
                                  body.displayName, clock)
              ELSE display_names
         /\ last' = [op |-> "name", body |-> body,
                      prior |-> getNameStmt(display_names, body.walletAddress)]
  /\ post' = << >>
  /\ UNCHANGED <<clock, roomsCache, roomsCacheMint, roomsCacheUpdatedAt,
                 ledger, req, writer>>

\* ------------------------------------------------------------------------
\* The environment
\* ------------------------------------------------------------------------
\* the client has read the response
Deliver ==
  /\ res # NoResponse
  /\ res' = NoResponse
  /\ last' = Env
  /\ UNCHANGED <<clock, roomsCache, roomsCacheMint, roomsCacheUpdatedAt,
                 display_names, ledger, req, post, writer>>

\* time passes
Tick(ms) ==
  /\ Quiet
  /\ clock + ms <= MaxClock
  /\ clock' = clock + ms
  /\ last' = Env
  /\ UNCHANGED <<roomsCache, roomsCacheMint, roomsCacheUpdatedAt, display_names,
                 ledger, req, post, res, writer>>

\* the token accounts of a mint change on the ledger
LedgerChange(mint, accounts) ==
  /\ Quiet
  /\ ledger[mint] # accounts
  /\ ledger' = [ledger EXCEPT ![mint] = accounts]
  /\ last' = Env
  /\ UNCHANGED <<clock, roomsCache, roomsCacheMint, roomsCacheUpdatedAt,
                 display_names, req, post, res, writer>>

\* ------------------------------------------------------------------------
\* Input families
\* ------------------------------------------------------------------------
\* the step of the clock: half the TTL
TickStep == CACHE_TTL_MS \div 2

\* display names of 1, 24 and 25 characters
NameA == <<97>>
Name24 == AsTuple(24, [i \in 1..24 |-> 99])
Name25 == AsTuple(25, [i \in 1..25 |-> 100])

\* a message with the prefix, the prefix alone, and a message without it
MessageOk == MessagePrefix \o <<233>>
MessageLower == <<114>> \o Tail(MessagePrefix) \o <<233>>

Body(walletAddress, displayName, message, signature) ==
  [walletAddress |-> walletAddress, displayName |-> displayName,
   message |-> message, signature |-> signature]

\* the update of key's name to displayName, signed by that key
SignedUpdate(key, displayName) ==
  Body(WalletOf(key), displayName, MessageOk, Sign(key, TextEncode(MessageOk)))

\* the name updates of the server specification
ServerBodies == {SignedUpdate(3, NameA)}

\* the name updates of the registry specification
NameBodies ==
  {Body(w, n, m, sig) :
     w \in {Absent, WalletOf(3), WalletOf(4), BadAddress},
     n \in {Absent, << >>, NameA, Name24, Name25},
     m \in {Absent, MessageOk, MessagePrefix, MessageLower},
     sig \in {NoSignature,
              Sign(3, TextEncode(MessageOk)),
              Sign(4, TextEncode(MessageOk)),
              Sign(3, TextEncode(MessageLower)),
              Flip(Sign(3, TextEncode(MessageOk))),
              Truncate(Sign(3, TextEncode(MessageOk)))}}

\* the account lists of the server specification: those the configured mint
\* goes through, and the one of the other mint
OtherLedger == <<Account(5, Bytes(500))>>

ServerLedgers ==
  {<< >>, <<Account(4, Bytes(500)), Account(3, Bytes(300))>>}

\* every account list of at most MaxRecords accounts of two owners, with the
\* amounts 0, 300, 500 and 2^53 + 1
ShortAccounts ==
  {Account(o, a) : o \in {3, 4},
                   a \in {Bytes(0), Bytes(300), Bytes(500), BytesBig}}

ShortLedgers ==
  UNION {[1..n -> ShortAccounts] : n \in 0..MaxRecords}

\* account i of a list of n accounts with one account per owner: the owners
\* in ascending or descending order of address, the amounts all equal,
\* rising, falling, repeating 0, 100, 200, or 2^53 with 2^53 + 1 in the
\* last account
LongAccount(n, order, pattern, i) ==
  Account(IF order = "ascending" THEN i ELSE n + 1 - i,
          CASE pattern = "equal" -> Bytes(500)
            [] pattern = "rising" -> Bytes(i)
            [] pattern = "falling" -> Bytes(n + 1 - i)
            [] pattern = "repeating" -> Bytes((i % 3) * 100)
            [] pattern = "large" -> IF i = n THEN BytesBig ELSE Bytes2p53)

LongCounts ==
  {LANDLORD_TOP_N - 1, LANDLORD_TOP_N, LANDLORD_TOP_N + 1,
   MAX_ROOMS, MAX_ROOMS + 1, NumKeys}

LongLedgers ==
  {AsTuple(n, [i \in 1..n |-> LongAccount(n, order, pattern, i)]) :
     n \in LongCounts, order \in {"ascending", "descending"},
     pattern \in {"equal", "rising", "falling", "repeating", "large"}}

\* ------------------------------------------------------------------------
\* Specifications
\* ------------------------------------------------------------------------
\* The server: concurrent directory requests, name updates, time and ledger
Init ==
  /\ InitServer
  /\ ledger = [m \in Mints |-> IF m = TOKEN_MINT THEN << >> ELSE OtherLedger]

Next ==
  \/ \E q \in Queries : RoomsStart(q)
  \/ \E r \in 1..MaxInFlight, storeFails \in BOOLEAN : RoomsResume(r, storeFails)
  \/ \E r \in 1..MaxInFlight, errStr \in UpstreamErrors : RoomsFail(r, errStr)
  \/ \E body \in ServerBodies : PostArrive(body)
  \/ NameUpdate
  \/ Deliver
  \/ Tick(TickStep)
  \/ \E accounts \in ServerLedgers : LedgerChange(TOKEN_MINT, accounts)

Spec == Init /\ [][Next]_vars

\* The registry: name updates one after the other, over every body
NextNames ==
  \/ \E body \in NameBodies : PostArrive(body)
  \/ NameUpdate
  \/ Deliver
  \/ Tick(TickStep)

SpecNames == Init /\ [][NextNames]_vars

\* The directory: requests for the configured mint over every ledger
InitDirectory ==
  /\ InitServer
  /\ ledger \in {[m \in Mints |-> IF m = TOKEN_MINT THEN accounts ELSE << >>] :
                   accounts \in ShortLedgers \cup LongLedgers}

NextDirectory ==
  \/ req = << >> /\ RoomsStart(Absent)
  \/ RoomsResume(1, FALSE)
  \/ Deliver

SpecDirectory == InitDirectory /\ [][NextDirectory]_vars

\* ------------------------------------------------------------------------
\* The cache of GET /api/rooms (Spec)
\* ------------------------------------------------------------------------
\* C1: directory requests for the same mint that overlap on a slot that does
\* not serve them share one upstream fetch: at no time are two fetches for
\* one mint outstanding.
C1OneFetchPerMint ==
  \A i, j \in 1..Len(req) : req[i].mint = req[j].mint => i = j

\* C2: a request that starts after a request for the same mint has answered
\* with a list, less than CACHE_TTL_MS after that request's capture time and
\* with no write of the slot since, answers with exactly that list, flagged
\* cached: true, and issues no upstream fetch and no registry lookup.
C2CacheHit ==
  [][\A q \in Queries :
       (/\ RoomsStart(q)
        /\ ~QueryThrows(q)
        /\ ~writer.null
        /\ writer.mint = MintBase58(q)
        /\ clock - writer.capturedAt < CACHE_TTL_MS)
       => /\ res' = [status |-> 200, rooms |-> writer.rooms, cached |-> TRUE]
          /\ last'.fetches = 0
          /\ last'.lookups = 0
          /\ req' = req]_vars

\* a hit half a TTL after the capture, on a list that is not empty
C2Witness ==
  /\ last.op = "hit"
  /\ res.status = 200
  /\ res.cached
  /\ res.rooms = writer.rooms
  /\ res.rooms # << >>
  /\ clock - writer.capturedAt = TickStep

\* C3: a request that finds no list written, the list of another mint, or a
\* list captured CACHE_TTL_MS or more ago issues one upstream fetch and
\* awaits it; when it succeeds the slot holds its list, its mint and its
\* capture time and nothing else, and the response is flagged cached: false.
\* So after a request for mint B has written the slot, a request for another
\* mint A is a miss, however recently A was cached.
C3CacheMiss ==
  [][/\ \A q \in Queries :
          (/\ ~QueryThrows(q)
           /\ \/ writer.null
              \/ writer.mint # MintBase58(q)
              \/ clock - writer.capturedAt >= CACHE_TTL_MS
           /\ RoomsStart(q))
          => /\ req' = Append(req, [mint |-> MintBase58(q), now |-> clock])
             /\ last'.fetches = 1
             /\ res' = NoResponse
     /\ \A r \in 1..Len(req) :
          (res'.status = 200
             /\ \E storeFails \in BOOLEAN : RoomsResume(r, storeFails))
          => /\ res'.cached = FALSE
             /\ res'.rooms = Pipeline(ledger[req[r].mint], display_names)
             /\ roomsCache' = Rooms(res'.rooms)
             /\ roomsCacheMint' = req[r].mint
             /\ roomsCacheUpdatedAt' = req[r].now]_vars

\* a miss on a list of another mint that is younger than the TTL
C3Witness ==
  /\ last.op = "miss"
  /\ req # << >>
  /\ ~writer.null
  /\ writer.mint # req[Len(req)].mint
  /\ clock - writer.capturedAt < CACHE_TTL_MS

\* ------------------------------------------------------------------------
\* POST /api/display-name (SpecNames)
\* ------------------------------------------------------------------------
\* C4: a name update that fails a check (a missing field, a message without
\* the prefix, a name length outside 1..24, an invalid signature, a wallet
\* that does not decode) leaves the registry exactly as it was; the registry
\* changes only in the handling of a request that passes all four checks.
C4NoPartialState ==
  [][/\ (post # << >> /\ post' = << >> /\ res'.status # 200)
          => display_names' = display_names
     /\ display_names' # display_names
          => /\ post # << >>
             /\ LET body == post[1]
                IN  /\ Truthy(body.walletAddress) /\ Truthy(body.displayName)
                    /\ Truthy(body.message) /\ SignatureGiven(body.signature)
                    /\ StartsWith(body.message, MessagePrefix)
                    /\ Len(body.displayName) \in 1..24
                    /\ IsPublicKey(body.walletAddress)
                    /\ body.signature =
                         Sign(PublicKey(body.walletAddress), TextEncode(body.message))
                    /\ res'.status = 200]_vars

\* a request with a signature of another key, answered 401, registry not empty
C4Witness ==
  /\ last.op = "name"
  /\ res.status = 401
  /\ last.body.signature.key # PublicKey(last.body.walletAddress)
  /\ display_names # {}
  /\ getNameStmt(display_names, last.body.walletAddress) = last.prior

\* C5: the checks run in the order field presence, message prefix, name
\* length, signature, upsert, and the answer is the error of the first check
\* that fails: 400 for a missing field, a bad prefix or a name length out of
\* range (a bad prefix with an invalid signature gets 400, never 401), 401
\* only when the first three checks pass and the signature is invalid, 200
\* only when all pass.
C5CheckOrder ==
  [][(post # << >> /\ post' = << >>) =>
       LET body == post[1]
           missing == \/ ~Truthy(body.walletAddress) \/ ~Truthy(body.displayName)
                      \/ ~Truthy(body.message) \/ ~SignatureGiven(body.signature)
           prefixed == StartsWith(body.message, MessagePrefix)
           inRange == Len(body.displayName) \in 1..24
           signed == /\ IsPublicKey(body.walletAddress)
                     /\ body.signature =
                          Sign(PublicKey(body.walletAddress), TextEncode(body.message))
       IN  /\ missing => res' = [status |-> 400, error |-> "Missing fields"]
           /\ (~missing /\ ~prefixed)
                => res' = [status |-> 400, error |-> "Invalid message prefix"]
           /\ (~missing /\ prefixed /\ ~inRange)
                => res' = [status |-> 400, error |-> "Invalid name length"]
           /\ res'.status = 401 => (~missing /\ prefixed /\ inRange /\ ~signed)
           /\ res'.status = 200 => (~missing /\ prefixed /\ inRange /\ signed)
           /\ res'.status \in {200, 400, 401, 500}]_vars

\* a request with a bad prefix and a signature of another key, answered 400
C5Witness ==
  /\ last.op = "name"
  /\ Truthy(last.body.walletAddress) /\ Truthy(last.body.displayName)
  /\ Truthy(last.body.message)
  /\ ~StartsWith(last.body.message, MessagePrefix)
  /\ IsPublicKey(last.body.walletAddress)
  /\ last.body.signature.size = 64
  /\ last.body.signature.key # PublicKey(last.body.walletAddress)
  /\ res = [status |-> 400, error |-> "Invalid message prefix"]

\* C6: a request with every field, a message with the prefix, a name of 1 to
\* 24 characters and a signature valid for the message under the wallet's
\* key is answered 200, and the registry then maps the wallet to the name; a
\* request whose signature is not valid for its message and wallet, or whose
\* message lacks the prefix, or whose name has 0 or 25 characters, is not
\* answered 200 and does not change the registry.
C6SignaturePath ==
  [][(post # << >> /\ post' = << >>) =>
       LET body == post[1]
           present == /\ Truthy(body.walletAddress) /\ Truthy(body.displayName)
                      /\ Truthy(body.message) /\ SignatureGiven(body.signature)
           prefixed == StartsWith(body.message, MessagePrefix)
           signed == /\ IsPublicKey(body.walletAddress)
                     /\ body.signature =
                          Sign(PublicKey(body.walletAddress), TextEncode(body.message))
           rejected == res'.status # 200 /\ display_names' = display_names
       IN  /\ (present /\ prefixed /\ Len(body.displayName) \in 1..24 /\ signed)
                => /\ res'.status = 200
                   /\ getNameStmt(display_names', body.walletAddress) = body.displayName
           /\ (~signed \/ ~prefixed) => rejected
           /\ (body.displayName = << >> \/ Len(body.displayName) = 25) => rejected]_vars

\* a name of 24 characters accepted and stored
C6Witness ==
  /\ last.op = "name"
  /\ res.status = 200
  /\ Len(last.body.displayName) = 24
  /\ getNameStmt(display_names, last.body.walletAddress) = last.body.displayName

\* C7: the registry is last-write-wins per wallet: after every step the name
\* looked up for a wallet is the name of the update accepted in that step for
\* that wallet, if there is one, and otherwise the name looked up before; so
\* a lookup returns the name of the most recent accepted update, an accepted
\* update repeated leaves the name as it is, and an update for one wallet
\* leaves the record of every other wallet as it was. There is at most one
\* record per wallet.
C7LastWriteWins ==
  [][LET handled == post # << >> /\ post' = << >>
         wallets == {row.wallet : row \in display_names \cup display_names'}
                      \cup (IF handled THEN {post[1].walletAddress} ELSE {})
     IN  /\ \A w \in wallets :
              IF handled /\ res'.status = 200 /\ post[1].walletAddress = w
              THEN getNameStmt(display_names', w) = post[1].displayName
              ELSE {row \in display_names' : row.wallet = w}
                     = {row \in display_names : row.wallet = w}
         /\ \A r1, r2 \in display_names' : r1.wallet = r2.wallet => r1 = r2]_vars

\* an accepted update that replaces another name of its wallet, beside the
\* record of another wallet
C7Witness ==
  /\ last.op = "name"
  /\ res.status = 200
  /\ last.prior # Null
  /\ last.prior # last.body.displayName
  /\ getNameStmt(display_names, last.body.walletAddress) = last.body.displayName
  /\ \E row \in display_names : row.wallet # last.body.walletAddress

\* ------------------------------------------------------------------------
\* The directory (SpecDirectory)
\* ------------------------------------------------------------------------
\* C8: the entries of every directory response are in descending order of
\* balance, and entries of equal balance are in ascending lexicographic order
\* of wallet address, whatever the records and the order the upstream
\* returns them in.
C8ResponseOrder ==
  res.status = 200 =>
    LET e == res.rooms
        n == Len(e)
        bal == AsTuple(n, [i \in 1..n |-> ParseDecimal(e[i].balance)])
        less(a, b) ==
          \E k \in 1..Len(b) :
            /\ \A m \in 1..(k - 1) : m <= Len(a) /\ a[m] = b[m]
            /\ k > Len(a) \/ a[k] < b[k]
    IN  \A i \in 1..n : \A j \in (i + 1)..n :
          \/ BigCmp(bal[i], bal[j]) > 0
          \/ /\ BigCmp(bal[i], bal[j]) = 0
             /\ less(e[i].walletAddress, e[j].walletAddress)

\* C9: in every list, returned or cached, the entries with role Landlord are
\* exactly the first min(number of entries, LANDLORD_TOP_N) entries, every
\* other entry is a Tenant, and no Tenant has a balance above a Landlord's.
C9Roles ==
  \A e \in (IF res.status = 200 THEN {res.rooms} ELSE {})
             \cup (IF roomsCache.null THEN {} ELSE {roomsCache.rooms}) :
    LET n == Len(e)
        top == IF n < LANDLORD_TOP_N THEN n ELSE LANDLORD_TOP_N
        landlords == {i \in 1..n : e[i].role = "Landlord"}
        bal == AsTuple(n, [i \in 1..n |-> ParseDecimal(e[i].balance)])
    IN  /\ Cardinality(landlords) = top
        /\ landlords = 1..top
        /\ \A i \in (1..n) \ landlords : e[i].role = "Tenant"
        /\ \A i \in landlords : \A j \in (1..n) \ landlords :
             BigCmp(bal[i], bal[j]) >= 0

\* a response with more than LANDLORD_TOP_N entries whose first Tenant has
\* the balance of the last Landlord
C9Witness ==
  /\ res.status = 200
  /\ Len(res.rooms) > LANDLORD_TOP_N
  /\ res.rooms[LANDLORD_TOP_N].role = "Landlord"
  /\ res.rooms[LANDLORD_TOP_N + 1].role = "Tenant"
  /\ res.rooms[LANDLORD_TOP_N].balance = res.rooms[LANDLORD_TOP_N + 1].balance

\* C10: a response has at most one entry per owner, the balance of an entry
\* is the sum of the amounts of all records of its owner, and an owner whose
\* records all have amount 0 has no entry.
C10Aggregation ==
  res.status = 200 =>
    LET e == res.rooms
        accounts == ledger[TOKEN_MINT]
        sum(owner) == SumOwner(accounts, owner, 1, Len(accounts))
    IN  /\ \A i, j \in 1..Len(e) :
             e[i].walletAddress = e[j].walletAddress => i = j
        /\ \A i \in 1..Len(e) :
             ParseDecimal(e[i].balance) = sum(PublicKey(e[i].walletAddress))
        /\ \A k \in 1..Len(accounts) :
             sum(accounts[k].owner) = << >>
               => \A i \in 1..Len(e) :
                    e[i].walletAddress # WalletOf(accounts[k].owner)

\* C11: every list, returned or cached, has at most MAX_ROOMS entries, one
\* for each holder when there are no more than MAX_ROOMS holders, and no
\* holder left out has a larger balance than a holder kept.
C11SnapshotSize ==
  \A e \in (IF res.status = 200 THEN {res.rooms} ELSE {})
             \cup (IF roomsCache.null THEN {} ELSE {roomsCache.rooms}) :
    LET accounts == ledger[TOKEN_MINT]
        m == Len(accounts)
        sums == AsTuple(m, [k \in 1..m |->
                  SumOwner(accounts, accounts[k].owner, 1, m)])
        holders == {accounts[k].owner : k \in {j \in 1..m : sums[j] # << >>}}
        kept == {PublicKey(e[i].walletAddress) : i \in 1..Len(e)}
        sumOf(owner) == sums[CHOOSE k \in 1..m : accounts[k].owner = owner]
    IN  /\ Len(e) <= MAX_ROOMS
        /\ kept \subseteq holders
        /\ Cardinality(kept) = Len(e)
        /\ Len(e) = (IF Cardinality(holders) < MAX_ROOMS
                     THEN Cardinality(holders) ELSE MAX_ROOMS)
        /\ \A dropped \in holders \ kept : \A owner \in kept :
             BigCmp(sumOf(owner), sumOf(dropped)) >= 0

\* the strings and room counts the room function is tried on, beside the
\* addresses of the entries: the empty string, one character, characters up
\* to 65535, and a string whose hash passes 2^32 several times
RoomStrings ==
  {<< >>, <<0>>, <<65535>>, <<65535, 65535, 65535, 65535>>,
   WalletOf(1), WalletOf(NumKeys), WalletOf(1) \o WalletOf(2) \o WalletOf(3)}

RoomCounts == {1, 2, 7, MAX_ROOMS, 1000}

RECURSIVE Uint32Fold(_, _, _)
\* the fold h := (h * 31 + charCode) mod 2^32 over the characters of wallet
\* from the i-th on, h kept as <<h div 10^6, h mod 10^6>>; 2^32 = 4294967296
Uint32Fold(h, wallet, i) ==
  IF i > Len(wallet) THEN h
  ELSE LET low == h[2] * 31 + wallet[i]
           t1 == h[1] * 31 + (low \div 1000000)
           t0 == low % 1000000
           r0(q) == (t0 - q * 967296) % 1000000
           r1(q) == t1 - q * 4294 + ((t0 - q * 967296 - r0(q)) \div 1000000)
           q == CHOOSE k \in {t1 \div 4295, (t1 \div 4295) + 1} :
                  /\ r1(k) >= 0
                  /\ r1(k) < 4294 \/ (r1(k) = 4294 /\ r0(k) < 967296)
       IN  Uint32Fold(<<r1(q), r0(q)>>, wallet, i + 1)

\* C12: for every string W and room count M > 0, hashToRoom(W, M) is an
\* integer from 1 to M and is ((the fold of h := (h * 31 + charCode) mod 2^32
\* over W, from 0) mod M) + 1; and the roomNumber of every entry, returned or
\* cached, is that function of the entry's wallet and MAX_ROOMS alone,
\* whatever its balance, its rank and the time.
C12RoomNumber ==
  LET room(W, M) ==
        LET h == Uint32Fold(<<0, 0>>, W, 1)
        IN  ((((h[1] % M) * (1000000 % M)) + h[2]) % M) + 1
  IN  /\ \A W \in RoomStrings : \A M \in RoomCounts :
           hashToRoom(W, M) \in 1..M /\ hashToRoom(W, M) = room(W, M)
      /\ \A e \in (IF res.status = 200 THEN {res.rooms} ELSE {})
                  \cup (IF roomsCache.null THEN {} ELSE {roomsCache.rooms}) :
           \A i \in 1..Len(e) :
             /\ e[i].roomNumber \in 1..MAX_ROOMS
             /\ e[i].roomNumber = room(e[i].walletAddress, MAX_ROOMS)

\* a full response in which the wallet of key 3 is not first and has room 28
C12Witness ==
  /\ res.status = 200
  /\ Len(res.rooms) = MAX_ROOMS
  /\ \E i \in 2..Len(res.rooms) :
       /\ res.rooms[i].walletAddress = WalletOf(3)
       /\ res.rooms[i].roomNumber = 28

\* ------------------------------------------------------------------------
\* Failures and the life of the cache slot (Spec)
\* ------------------------------------------------------------------------
\* C13: a directory request whose fetch the upstream turns away for rate
\* limiting is answered 503; a request that fails for another reason (the
\* fetch failing otherwise, a mint that is no address, the registry read
\* throwing) is answered 500; and no request issues more than one fetch.
C13ErrorClasses ==
  [][/\ \A r \in 1..Len(req) : \A errStr \in UpstreamErrors :
          RoomsFail(r, errStr)
            => res'.status = (IF errStr \in RateLimitErrors THEN 503 ELSE 500)
     /\ \A q \in Queries :
          RoomsStart(q) => /\ QueryThrows(q) => res'.status = 500
                           /\ last'.fetches <= 1
     /\ \A r \in 1..Len(req) : \A storeFails \in BOOLEAN :
          RoomsResume(r, storeFails)
            => /\ last'.op = "failed" => res'.status = 500
               /\ last'.fetches = 0]_vars

\* C14: in every reachable state, under every interleaving of directory
\* requests for the same and for different mints, the three slot fields are
\* all unset or are the list, the mint and the capture time of one completed
\* run: the list holds holders of the cached mint only, and a response served
\* from the slot carries the list of that run.
C14AtomicSlot ==
  IF roomsCache.null
  THEN roomsCacheMint = Null /\ roomsCacheUpdatedAt = 0 /\ writer.null
  ELSE /\ ~writer.null
       /\ roomsCache.rooms = writer.rooms
       /\ roomsCacheMint = writer.mint
       /\ roomsCacheUpdatedAt = writer.capturedAt
       /\ LET owners == IF roomsCacheMint = TOKEN_MINT
                        THEN {accounts[k].owner :
                                k \in 1..2, accounts \in ServerLedgers \ {<< >>}}
                        ELSE {OtherLedger[1].owner}
          IN  \A i \in 1..Len(roomsCache.rooms) :
                \E o \in owners : roomsCache.rooms[i].walletAddress = WalletOf(o)
       /\ last.op = "hit" => res.rooms = writer.rooms

\* the slot written by a request for one mint while an older request for
\* the other mint still awaits the upstream
C14Witness ==
  /\ ~roomsCache.null
  /\ roomsCache.rooms # << >>
  /\ req # << >>
  /\ req[1].mint # roomsCacheMint
  /\ req[1].now < roomsCacheUpdatedAt

\* C15: once a list is stored the slot is never empty again; a request for
\* the mint of the slot that starts less than CACHE_TTL_MS after the newest
\* capture time stored for that mint, no request for another mint having
\* replaced the slot since, is a cache hit; and while the slot keeps its mint
\* its capture time never moves backwards, also when an older, slower miss
\* for that mint completes after a newer one.
C15CacheLifecycle ==
  [][/\ ~roomsCache.null => ~roomsCache'.null
     /\ \A q \in Queries :
          (/\ RoomsStart(q)
           /\ ~QueryThrows(q)
           /\ ~writer.null
           /\ writer.mint = MintBase58(q)
           /\ clock - writer.newest < CACHE_TTL_MS)
          => last'.op = "hit"
     /\ (~roomsCache.null /\ roomsCacheMint' = roomsCacheMint)
          => roomsCacheUpdatedAt' >= roomsCacheUpdatedAt]_vars

\* ------------------------------------------------------------------------
\* Exact balances (SpecDirectory)
\* ------------------------------------------------------------------------
\* C16: the balance string of every entry whose owner's amounts sum to more
\* than 2^53 is the decimal representation of that sum, and the entries are
\* ranked by the exact sums: no entry stands before an entry of a larger sum.
C16ExactBalances ==
  res.status = 200 =>
    LET e == res.rooms
        n == Len(e)
        accounts == ledger[TOKEN_MINT]
        sums == AsTuple(n, [i \in 1..n |->
                  SumOwner(accounts, PublicKey(e[i].walletAddress),
                           1, Len(accounts))])
    IN  /\ \A i \in 1..n :
             BigCmp(sums[i], P53) > 0 => ParseDecimal(e[i].balance) = sums[i]
        /\ \A i \in 1..n : \A j \in (i + 1)..n : BigCmp(sums[i], sums[j]) >= 0

\* ------------------------------------------------------------------------
\* Replays of a name update (SpecNames)
\* ------------------------------------------------------------------------
\* C17: the outcome of the verification depends on the wallet, the message
\* and the signature only, not on the displayName; so a request with a
\* wallet, message and signature that verify is accepted also when the
\* registry already has a name for the wallet from an earlier request,
\* whatever displayName of 1 to 24 characters it carries, and each time the
\* wallet's record is overwritten with that displayName.
C17Replay ==
  [][(post # << >> /\ post' = << >>) =>
       LET body == post[1]
           verifies == /\ Truthy(body.message)
                       /\ StartsWith(body.message, MessagePrefix)
                       /\ IsPublicKey(body.walletAddress)
                       /\ body.signature =
                            Sign(PublicKey(body.walletAddress), TextEncode(body.message))
       IN  /\ (verifies /\ Truthy(body.displayName)
                         /\ Len(body.displayName) \in 1..24)
                => /\ res'.status = 200
                   /\ [wallet |-> body.walletAddress, name |-> body.displayName,
                       updated_at |-> clock] \in display_names'
                   /\ \A row \in display_names' :
                        row.wallet = body.walletAddress => row.name = body.displayName
           /\ (VerifyThrows(body.signature) \/ ~IsPublicKey(body.walletAddress))
                \/ \A name \in {NameA, Name24, Name25} :
                     IsValid([body EXCEPT !.displayName = name]) = IsValid(body)]_vars

\* the wallet, message and signature of an accepted request accepted again,
\* later and with another displayName, which replaces the name stored
C17Witness ==
  /\ last.op = "name"
  /\ res.status = 200
  /\ last.prior # Null
  /\ last.prior # last.body.displayName
  /\ \E row \in display_names :
       /\ row.wallet = last.body.walletAddress
       /\ row.name = last.body.displayName
       /\ row.updated_at = clock
       /\ row.updated_at > CACHE_TTL_MS

\* ------------------------------------------------------------------------
\* What leaves the cache slot alone (Spec)
\* ------------------------------------------------------------------------
\* C18: a directory request that fails (the upstream rejecting, rate limited
\* or not, a mint that is no address, the registry read throwing) leaves the
\* three slot fields as they were: a list stored before stays in the slot,
\* and the next request the slot does not serve issues a new fetch.
C18FailureNotCached ==
  [][/\ ((\E r \in 1..Len(req) :
            \/ last'.op = "rejected"
                 /\ \E errStr \in UpstreamErrors : RoomsFail(r, errStr)
            \/ res'.status # 200 /\ RoomsResume(r, TRUE))
         \/ \E q \in Queries : QueryThrows(q) /\ RoomsStart(q))
          => /\ res'.status \in {500, 503}
             /\ roomsCache' = roomsCache
             /\ roomsCacheMint' = roomsCacheMint
             /\ roomsCacheUpdatedAt' = roomsCacheUpdatedAt
     /\ \A q \in Queries :
          (/\ ~QueryThrows(q)
           /\ \/ roomsCache.null
              \/ roomsCacheMint # MintBase58(q)
              \/ clock - roomsCacheUpdatedAt >= CACHE_TTL_MS
           /\ RoomsStart(q))
            => last'.fetches = 1]_vars

\* a rejected fetch answered 503 while a list stored before is in the slot
C18Witness ==
  /\ last.op = "rejected"
  /\ res.status = 503
  /\ ~roomsCache.null
  /\ roomsCache.rooms # << >>
  /\ roomsCache = [null |-> FALSE, rooms |-> writer.rooms]

\* C19: a name update never changes the cache slot and a cache hit never
\* reads the registry: a hit returns the list as it was stored, with the
\* names of that time, also after a name update for a wallet in it; a list
\* computed by a miss carries for every entry the name the registry has when
\* the list is computed.
C19NameAndCache ==
  [][/\ (post # << >> /\ post' = << >>)
          => /\ roomsCache' = roomsCache
             /\ roomsCacheMint' = roomsCacheMint
             /\ roomsCacheUpdatedAt' = roomsCacheUpdatedAt
     /\ \A q \in Queries :
          (RoomsStart(q) /\ last'.op = "hit")
            => /\ last'.lookups = 0
               /\ res'.rooms = writer.rooms
               /\ display_names' = display_names
     /\ \A r \in 1..Len(req) :
          (last'.op = "stored" /\ RoomsResume(r, FALSE))
            => /\ last'.lookups = Len(res'.rooms)
               /\ \A i \in 1..Len(res'.rooms) :
                    res'.rooms[i].displayName =
                      (IF \E row \in display_names :
                            row.wallet = res'.rooms[i].walletAddress
                       THEN (CHOOSE row \in display_names :
                               row.wallet = res'.rooms[i].walletAddress).name
                       ELSE Null)]_vars

\* a hit that returns no name for a wallet the registry has a name for
C19Witness ==
  /\ last.op = "hit"
  /\ \E i \in 1..Len(res.rooms) :
       /\ res.rooms[i].displayName = Null
       /\ \E row \in display_names : row.wallet = res.rooms[i].walletAddress

\* C20: under every interleaving, the list of a response flagged cached:
\* true comes from a fetch issued less than CACHE_TTL_MS before the start of
\* the request answered, the capture time stored being the time at which
\* the run that stored the list issued its fetch; and the slot changes only
\* in the step of a directory request that stores its list: no passing of
\* time, name update, ledger change or failure changes it.
C20Freshness ==
  [][/\ \A q \in Queries :
          (RoomsStart(q) /\ ~QueryThrows(q) /\ res'.status = 200)
            => /\ res'.cached
               /\ res'.rooms = writer.rooms
               /\ writer.capturedAt <= clock
               /\ clock - writer.capturedAt < CACHE_TTL_MS
     /\ \A q \in Queries :
          (RoomsStart(q) /\ last'.op = "miss")
            => req'[Len(req')].now = clock
     /\ <<roomsCache, roomsCacheMint, roomsCacheUpdatedAt>>'
           # <<roomsCache, roomsCacheMint, roomsCacheUpdatedAt>>
          => \E r \in 1..Len(req) :
               /\ last'.op = "stored"
               /\ RoomsResume(r, FALSE)
               /\ roomsCacheUpdatedAt' = req[r].now]_vars

\* a hit, while another request awaits the upstream, on a list whose fetch
\* was issued half a TTL before
C20Witness ==
  /\ last.op = "hit"
  /\ req # << >>
  /\ res.cached
  /\ clock - writer.capturedAt = TickStep
  /\ clock - roomsCacheUpdatedAt < CACHE_TTL_MS

====
